---------------------------- MODULE Spec2Model ----------------------------
(***************************************************************************)
(* A model of two parts of phonopy:                                        *)
(*   - the abinit structure adapter (src/phonopy/interface/abinit.py):     *)
(*     get_abinit_structure, AbinitIn and read_abinit;                     *)
(*   - the Phono3py facade (src/anharmonic/phonon3/__init__.py):           *)
(*     get_imag_self_energy, get_linewidth and get_thermal_conductivity.   *)
(* Numbers are integers: a float token "1.0" is the integer 1 with the     *)
(* flag dec (its text holds a decimal point).                              *)
(***************************************************************************)
EXTENDS Integers, Sequences, FiniteSets, TLC

VARIABLES
  \* ---- the abinit adapter
  inp,        \* the scenario's input (a structure to write, or a hand-written file)
  lines,      \* the text of the file, as pieces: white space or a chunk of text
  ppc,        \* position in write_abinit / AbinitIn.__init__ / read_abinit
  elements,   \* _collect's local dict: tag -> None | Some(list of value tokens)
  tags,       \* AbinitIn._tags
  acell_angstrom, \* whether _set_acell divided acell by Bohr
  result      \* what read_abinit returned: None | Some(Atoms)

VARIABLES
  \* ---- Phono3py.get_imag_self_energy and Phono3py.get_linewidth
  swp,        \* the call: which method, and its arguments
  self,       \* the Phono3py object: _band_indices, _band_indices_flatten
  spc,        \* position in the method
  idx,        \* the loop indices: gp, sigma, t, i (the band group)
  loc,        \* the method's locals: temperatures, fpoints, gamma
  ise,        \* the ImagSelfEnergy object: its configuration and its result
  cache_max,  \* np.amax(self._interaction.get_phonons()[0])
  hist,       \* what was called and written: clock, last call of each method, writes
  \* ---- Phono3py.get_thermal_conductivity
  args,       \* the arguments of the call, and the seed of the run's numbers
  kpc,        \* position in the method
  br,         \* the conductivity_RTA object
  kidx,       \* the loop indices: sigma, gp, t
  kloc,       \* the method's locals: gamma, gamma_at_sigma, mode_kappa, temperatures, kappa
  store,      \* the gamma arrays the persistence collaborator holds, by key
  out         \* what was called, printed and written

abinitVars == <<inp, lines, ppc, elements, tags, acell_angstrom, result>>
sweepVars == <<swp, self, spc, idx, loc, ise, cache_max, hist>>
kappaVars == <<args, kpc, br, kidx, kloc, store, out>>
vars == <<inp, lines, ppc, elements, tags, acell_angstrom, result,
          swp, self, spc, idx, loc, ise, cache_max, hist,
          args, kpc, br, kidx, kloc, store, out>>

-----------------------------------------------------------------------------
(* Bounds of the model *)

\* the longest hand-written value list of a section, in tokens
MaxToks == 2
\* the largest multiplicity N of a token N*v
MaxMult == 5
\* the largest number of atoms of a structure that is written
MaxAtoms == 2
\* the longest list of grid points, of sigmas and of temperatures of a sweep
MaxGp == 2
MaxSigmas == 2
MaxTemps == 2
\* the largest number of band groups and the longest band group
MaxGroups == 2
MaxGroupLen == 2

-----------------------------------------------------------------------------
(* Python values *)

None == <<>>
Some(x) == <<x>>
IsNone(o) == Len(o) = 0
Get(o) == o[1]

Min(a, b) == IF a < b THEN a ELSE b
Max(a, b) == IF a > b THEN a ELSE b

\* seq[:k] for k >= 0
Take(seq, k) == SubSeq(seq, 1, Min(k, Len(seq)))

RECURSIVE Repeat(_, _)
\* [a] * m
Repeat(a, m) == IF m <= 0 THEN <<>> ELSE <<a>> \o Repeat(a, m - 1)

RECURSIVE Concat(_)
\* the concatenation of a sequence of sequences
Concat(ss) == IF Len(ss) = 0 THEN <<>> ELSE Head(ss) \o Concat(Tail(ss))

-----------------------------------------------------------------------------
(* Tokens of the input file *)

TagOrder == <<"natom", "ntypat", "acell", "rprim", "typat", "xred", "znucl">>
\* the keys of AbinitIn._set_methods
Tags == {TagOrder[i] : i \in 1..Len(TagOrder)}

Tok(k, n, m, v, d) == [kind |-> k, name |-> n, m |-> m, v |-> v, dec |-> d]
Kw(n) == Tok("kw", n, 0, 0, FALSE)          \* a section keyword
Num(v) == Tok("num", "", 1, v, FALSE)       \* "3"
Flt(v) == Tok("num", "", 1, v, TRUE)        \* "3.0"
Star(m, v) == Tok("star", "", m, v, FALSE)  \* "2*3"
FStar(m, v) == Tok("star", "", m, v, TRUE)  \* "2*3.0"
BadTok == Tok("bad", "", 0, 0, FALSE)       \* text that is no number: "abc"
UnitTok == Tok("unit", "", 0, 0, FALSE)     \* "angstrom"
GluedTok == Tok("glued", "", 0, 0, FALSE)   \* two formatted floats with no space between

\* a piece of the file's text: a chunk of text and the number of white-space
\* characters (blanks, line ends) that stand before it; sep = 0 glues the chunk
\* to the one before it
Piece(sep, t) == [sep |-> sep, tok |-> t]

StartsToken(text, i) == i = 1 \/ text[i].sep > 0

RECURSIVE SplitFrom(_, _)
\* line.split() over all lines: a maximal run of chunks is one string; a run
\* of two or more formatted numbers is no number
SplitFrom(text, i) ==
  IF i > Len(text) THEN <<>>
  ELSE IF ~StartsToken(text, i) THEN SplitFrom(text, i + 1)
  ELSE IF i = Len(text) \/ StartsToken(text, i + 1)
  THEN <<text[i].tok>> \o SplitFrom(text, i + 1)
  ELSE <<GluedTok>> \o SplitFrom(text, i + 1)

Split(text) == SplitFrom(text, 1)

\* a hand-written file: white space before every token
Spaced(toks) == [i \in 1..Len(toks) |-> Piece(1, toks[i])]

-----------------------------------------------------------------------------
(* AbinitIn *)

NoElements == [t \in Tags |-> None]

RECURSIVE CollectFromNatomFirst(_, _, _, _)
\* a changed _collect: a section is opened only once natom has been seen, so a
\* section that stands before natom in the file is lost
CollectFromNatomFirst(toks, i, tag, elems) ==
  IF i > Len(toks) THEN elems
  ELSE LET val == toks[i] IN
       IF val.kind = "kw" /\ val.name \in Tags
       THEN IF val.name = "natom" \/ ~IsNone(elems["natom"])
            THEN CollectFromNatomFirst(toks, i + 1, Some(val.name),
                                       [elems EXCEPT ![val.name] = Some(<<>>)])
            ELSE CollectFromNatomFirst(toks, i + 1, None, elems)
       ELSE IF ~IsNone(tag)
       THEN CollectFromNatomFirst(toks, i + 1, tag,
                                  [elems EXCEPT ![Get(tag)] = Some(Append(Get(@), val))])
       ELSE CollectFromNatomFirst(toks, i + 1, tag, elems)

RECURSIVE CollectFrom(_, _, _, _)
\* the first loop of _collect: a keyword opens (or re-opens) its section, any
\* other token is appended to the open section, tokens before the first
\* keyword are dropped
CollectFrom(toks, i, tag, elems) ==
  IF i > Len(toks) THEN elems
  ELSE LET val == toks[i] IN
       IF val.kind = "kw" /\ val.name \in Tags
       THEN CollectFrom(toks, i + 1, Some(val.name),
                        [elems EXCEPT ![val.name] = Some(<<>>)])
       ELSE IF ~IsNone(tag)
       THEN CollectFrom(toks, i + 1, tag,
                        [elems EXCEPT ![Get(tag)] = Some(Append(Get(@), val))])
       ELSE CollectFrom(toks, i + 1, tag, elems)

CollectElements(toks) == CollectFrom(toks, 1, None, NoElements)

Fail == [ok |-> FALSE, vals |-> <<>>]
Ok(vals) == [ok |-> TRUE, vals |-> vals]

\* int(str): the text of an integer only
IntOf(tok) == IF tok.kind = "num" /\ ~tok.dec THEN Ok(<<tok.v>>) ELSE Fail

\* fracval(str_val) of a decimal text and int(str_val): the number the text
\* denotes; int() raises ValueError on a text with a decimal point
ValueOf(tok, num_type) ==
  IF num_type = "float" THEN Ok(<<tok.v>>)
  ELSE IF tok.dec THEN Fail ELSE Ok(<<tok.v>>)

\* a changed _get_numerical_values: the multiplicity is dropped, [a]
get_numerical_values_once(tok, num_type) ==
  IF tok.kind \notin {"num", "star"} THEN Fail
  ELSE LET a == ValueOf(tok, num_type)
       IN IF a.ok THEN Ok(<<a.vals[1]>>) ELSE Fail

\* _get_numerical_values: [a] * m, or an exception (ok = FALSE)
get_numerical_values(tok, num_type) ==
  IF tok.kind \notin {"num", "star"} THEN Fail
  ELSE LET a == ValueOf(tok, num_type)
       IN IF a.ok THEN Ok(Repeat(a.vals[1], tok.m)) ELSE Fail

RECURSIVE GatherAcell(_, _, _)
\* the loop of _set_acell: the length is tested BEFORE a token is read, and
\* the first token after three values is looked at for the unit
GatherAcell(values, i, acell) ==
  IF i > Len(values) THEN [ok |-> TRUE, vals |-> acell, angstrom |-> FALSE]
  ELSE IF Len(acell) >= 3
  THEN [ok |-> TRUE, vals |-> acell, angstrom |-> values[i].kind = "unit"]
  ELSE LET r == get_numerical_values(values[i], "float")
       IN IF r.ok THEN GatherAcell(values, i + 1, acell \o r.vals)
          ELSE [ok |-> FALSE, vals |-> <<>>, angstrom |-> FALSE]

RECURSIVE Gather(_, _, _, _, _)
\* the loop of _set_rprim, _set_typat, _set_xred and _set_znucl: the length is
\* tested AFTER a token's values are added
Gather(values, i, acc, K, num_type) ==
  IF i > Len(values) THEN Ok(acc)
  ELSE LET r == get_numerical_values(values[i], num_type)
       IN IF ~r.ok THEN Fail
          ELSE IF Len(acc \o r.vals) >= K THEN Ok(acc \o r.vals)
          ELSE Gather(values, i + 1, acc \o r.vals, K, num_type)

\* np.reshape(flat, (-1, 3)) and np.reshape(flat, (3, 3)): rows of three
Rows3(flat) == [r \in 1..(Len(flat) \div 3) |-> SubSeq(flat, 3 * r - 2, 3 * r)]

set_acell(values) ==
  LET g == GatherAcell(values, 1, <<>>)
  IN [ok |-> g.ok, val |-> Take(g.vals, 3), angstrom |-> g.angstrom]

\* int(self._values[0]): IndexError on an empty section
set_natom(values) ==
  IF Len(values) = 0 THEN [ok |-> FALSE, val |-> 0]
  ELSE LET r == IntOf(values[1])
       IN IF r.ok THEN [ok |-> TRUE, val |-> r.vals[1]] ELSE [ok |-> FALSE, val |-> 0]

set_ntypat(values) ==
  IF Len(values) = 0 THEN [ok |-> FALSE, val |-> 0]
  ELSE LET r == IntOf(values[1])
       IN IF r.ok THEN [ok |-> TRUE, val |-> r.vals[1]] ELSE [ok |-> FALSE, val |-> 0]

\* np.reshape(rprim[:9], (3, 3)) raises unless there are nine values
set_rprim(values) ==
  LET g == Gather(values, 1, <<>>, 9, "float")
  IN IF g.ok /\ Len(g.vals) >= 9 THEN [ok |-> TRUE, val |-> Rows3(Take(g.vals, 9))]
     ELSE [ok |-> FALSE, val |-> <<>>]

set_typat(values, natom) ==
  LET g == Gather(values, 1, <<>>, natom, "int")
  IN [ok |-> g.ok, val |-> Take(g.vals, natom)]

\* np.reshape(xred[:natom * 3], (-1, 3)) raises unless the count is a multiple
\* of three
set_xred(values, natom) ==
  LET g == Gather(values, 1, <<>>, natom * 3, "float")
      flat == Take(g.vals, natom * 3)
  IN IF g.ok /\ Len(flat) % 3 = 0 THEN [ok |-> TRUE, val |-> Rows3(flat)]
     ELSE [ok |-> FALSE, val |-> <<>>]

set_znucl(values, ntypat) ==
  LET g == Gather(values, 1, <<>>, ntypat, "int")
  IN [ok |-> g.ok, val |-> Take(g.vals, ntypat)]

NoTags == [t \in Tags |-> None]


\* the second and third loop of _collect for one tag: the setter's outcome on
\* the section's tokens, or "absent" when the file has no such section
Setter(tag, elems, natom, ntypat) ==
  IF IsNone(elems[tag]) THEN [ok |-> TRUE, val |-> None, angstrom |-> FALSE]
  ELSE LET values == Get(elems[tag])
           r == CASE tag = "acell" -> set_acell(values)
                  [] tag = "rprim" -> set_rprim(values)
                  [] tag = "typat" -> set_typat(values, natom)
                  [] tag = "xred" -> set_xred(values, natom)
                  [] tag = "znucl" -> set_znucl(values, ntypat)
       IN [ok |-> r.ok, val |-> Some(r.val),
           angstrom |-> tag = "acell" /\ r.ok /\ r.angstrom]

OtherTags == Tags \ {"natom", "ntypat"}

\* _collect after the two counts are set: every other section's setter; an
\* exception in any of them ends the constructor (the order in which the dict
\* yields the sections does not change which of the two happens)
SetOthersResult(elems, natom, ntypat) ==
  LET r == [t \in OtherTags |-> Setter(t, elems, natom, ntypat)]
  IN [ok |-> \A t \in OtherTags : r[t].ok,
      tags |-> [t \in Tags |-> IF t = "natom" THEN Some(natom)
                               ELSE IF t = "ntypat" THEN Some(ntypat)
                               ELSE r[t].val],
      angstrom |-> r["acell"].angstrom]

-----------------------------------------------------------------------------
(* get_abinit_structure *)

\* Atoms(numbers, cell, scaled_positions): cell[i] is the i-th lattice vector
Atoms(numbers, cell, scaled_positions) ==
  [numbers |-> numbers, cell |-> cell, scaled_positions |-> scaled_positions]

\* the width and the precision of "%20.16f"
FmtWidth == 20
FmtPrec == 16

RECURSIVE Digits(_)
\* the number of decimal digits of n >= 0
Digits(n) == IF n < 10 THEN 1 ELSE 1 + Digits(n \div 10)

\* the length of "%.16f" % v for an integral v: sign, digits, point, decimals
TextLen(v) == (IF v < 0 THEN 1 ELSE 0) + Digits(IF v < 0 THEN -v ELSE v) + 1 + FmtPrec

\* "%20.16f" % v: the text of v, with blanks before it up to 20 characters
\* and with none when the text has 20 characters or more; `before` is the white
\* space that ends the text before it
Fmt2016(before, v) == Piece(before + Max(0, FmtWidth - TextLen(v)), Flt(v))

\* " %d" % n
FmtD(before, n) == Piece(before + 1, Num(n))

RECURSIVE UniqueFrom(_, _, _)
\* the znucl loop: the atomic numbers in the order of their first appearance
UniqueFrom(numbers, i, znucl) ==
  IF i > Len(numbers) THEN znucl
  ELSE IF \E k \in 1..Len(znucl) : znucl[k] = numbers[i]
  THEN UniqueFrom(numbers, i + 1, znucl)
  ELSE UniqueFrom(numbers, i + 1, Append(znucl, numbers[i]))

\* znucl.index(n) + 1
IndexOf(znucl, n) == CHOOSE k \in 1..Len(znucl) :
  znucl[k] = n /\ \A j \in 1..(k - 1) : znucl[j] # n

Transpose(mat) == [i \in 1..3 |-> [j \in 1..3 |-> mat[j][i]]]

\* get_scaled_positions_lines: three coordinates a line, each a text of its own
scaled_positions_lines(pos) ==
  Concat([i \in 1..Len(pos) |->
            <<Piece(1, Flt(pos[i][1])), Piece(1, Flt(pos[i][2])), Piece(1, Flt(pos[i][3]))>>])

\* the rprim block: "%20.16f" * 3 + "\n", three times, after "rprim\n"
RprimLines(T) ==
  Concat([i \in 1..3 |->
            <<Fmt2016(1, T[i][1]), Fmt2016(0, T[i][2]), Fmt2016(0, T[i][3])>>])

get_abinit_structure(cell) ==
  LET numbers == cell.numbers
      znucl == UniqueFrom(numbers, 1, <<>>)
      typat == [i \in 1..Len(numbers) |-> IndexOf(znucl, numbers[i])]
      T == Transpose(cell.cell)
  IN <<Piece(0, Kw("natom")), FmtD(0, Len(numbers))>>
     \o <<Piece(1, Kw("typat"))>>
     \o [i \in 1..Len(typat) |-> FmtD(IF i = 1 THEN 1 ELSE 0, typat[i])]
     \o <<Piece(1, Kw("ntypat")), FmtD(0, Len(znucl))>>
     \o <<Piece(1, Kw("znucl"))>>
     \o [i \in 1..Len(znucl) |-> FmtD(0, znucl[i])]
     \o <<Piece(1, Kw("acell")), FmtD(0, 1), FmtD(0, 1), FmtD(0, 1)>>
     \o <<Piece(1, Kw("rprim"))>>
     \o RprimLines(T)
     \o <<Piece(1, Kw("xred"))>>
     \o scaled_positions_lines(Get(cell.scaled_positions))

-----------------------------------------------------------------------------
(* read_abinit *)

\* tags['znucl'][x - 1]: a negative index counts from the end
PyIndexOk(seq, k) == k < Len(seq) /\ k >= -Len(seq)
PyIndex(seq, k) == IF k >= 0 THEN seq[k + 1] ELSE seq[Len(seq) + k + 1]

\* np.array(rprim) * acell: numpy broadcasts a list of three (one factor a
\* column) and a list of one (the same factor everywhere); any other length
\* raises
ScaleOk(acell) == Len(acell) \in {1, 3}
Scale(rprim, acell) ==
  [i \in 1..3 |-> [j \in 1..3 |->
     rprim[i][j] * (IF Len(acell) = 1 THEN acell[1] ELSE acell[j])]]

read_abinit(tg) ==
  LET present == ~IsNone(tg["acell"]) /\ ~IsNone(tg["rprim"]) /\ ~IsNone(tg["typat"])
      typat == Get(tg["typat"])
      znuclOk == Len(typat) = 0
                 \/ (~IsNone(tg["znucl"]) /\
                     \A i \in 1..Len(typat) : PyIndexOk(Get(tg["znucl"]), typat[i] - 1))
  IN IF present /\ ScaleOk(Get(tg["acell"])) /\ znuclOk
     THEN LET lattice == Scale(Get(tg["rprim"]), Get(tg["acell"]))
              numbers == [i \in 1..Len(typat) |-> PyIndex(Get(tg["znucl"]), typat[i] - 1)]
          IN [ok |-> TRUE,
              atoms |-> Some(Atoms(numbers, Transpose(lattice), tg["xred"]))]
     ELSE [ok |-> FALSE, atoms |-> None]


-----------------------------------------------------------------------------
(* The inputs of the adapter *)

\* lattice vectors a structure is built from; some have a component of three
\* characters or more before the decimal point
LatticeVecs == {<<1, 0, 0>>, <<0, 2, 0>>, <<1, 1, 3>>, <<0, 100, 0>>, <<-10, 0, 5>>}
AtomicNumbers == {8, 14}
PosRows == {<<0, 0, 0>>, <<1, 2, 3>>}

Structures ==
  UNION {{Atoms(numbers, cell, Some(pos)) :
            numbers \in [1..n -> AtomicNumbers],
            cell \in [1..3 -> LatticeVecs],
            pos \in [1..n -> PosRows]} : n \in 1..MaxAtoms}

\* the tokens a hand-written value list is made of
Alphabet ==
  {Num(1), Num(2), Flt(1), BadTok, UnitTok}
  \cup {Star(m, v) : m \in {2, 3, MaxMult}, v \in {1, 2}}

TokLists == UNION {[1..n -> Alphabet] : n \in 0..MaxToks}

\* a well-formed file of two atoms of two species
DefaultSections ==
  [natom |-> Some(<<Num(2)>>),
   ntypat |-> Some(<<Num(2)>>),
   acell |-> Some(<<Flt(1), Flt(1), Flt(1)>>),
   rprim |-> Some(<<Flt(1), Flt(0), Flt(0), Flt(0), Flt(1), Flt(0), Flt(0), Flt(0), Flt(1)>>),
   typat |-> Some(<<Num(1), Num(2)>>),
   xred |-> Some(<<Flt(0), Flt(0), Flt(0), Flt(1), Flt(2), Flt(3)>>),
   znucl |-> Some(<<Num(14), Num(8)>>)]

\* a well-formed file that uses the multiplicity syntax and the unit of acell
StarSections ==
  [natom |-> Some(<<Num(2)>>),
   ntypat |-> Some(<<Num(1)>>),
   acell |-> Some(<<FStar(2, 2), FStar(2, 3), UnitTok>>),
   rprim |-> Some(<<FStar(4, 1), FStar(4, 0), FStar(4, 2)>>),
   typat |-> Some(<<Star(3, 1)>>),
   xred |-> Some(<<FStar(4, 0), Flt(1), FStar(2, 2)>>),
   znucl |-> Some(<<Star(2, 14)>>)]

\* the file whose sections stand in the order `order` (a permutation of 1..7),
\* white space before every token
Stream(sections, order) ==
  Concat([i \in 1..Len(order) |->
            LET t == TagOrder[order[i]]
            IN IF IsNone(sections[t]) THEN <<>>
               ELSE <<Piece(1, Kw(t))>> \o Spaced(Get(sections[t]))])

Canonical == [i \in 1..7 |-> i]
Orders == Permutations(1..7)

\* the state of the facade while the adapter runs
SweepIdle ==
  /\ swp = [op |-> "none"]
  /\ self = [op |-> "none"]
  /\ spc = "idle"
  /\ idx = [op |-> "none"]
  /\ loc = [op |-> "none"]
  /\ ise = [op |-> "none"]
  /\ cache_max = 0
  /\ hist = [op |-> "none"]

\* the state of the adapter while the facade runs
AbinitIdle ==
  /\ inp = [kind |-> "none"]
  /\ lines = <<>>
  /\ ppc = "idle"
  /\ elements = NoElements
  /\ tags = NoTags
  /\ acell_angstrom = FALSE
  /\ result = None

\* the state of get_thermal_conductivity while it is not called
KappaIdle ==
  /\ args = [op |-> "none"]
  /\ kpc = "idle"
  /\ br = None
  /\ kidx = [op |-> "none"]
  /\ kloc = [op |-> "none"]
  /\ store = [op |-> "none"]
  /\ out = [op |-> "none"]

-----------------------------------------------------------------------------
(* The adapter as a state machine *)

InitAbinit ==
  /\ \/ /\ \/ \E f \in Tags : \E v \in {None} \cup {Some(l) : l \in TokLists} :
                 inp = [kind |-> "file", sections |-> [DefaultSections EXCEPT ![f] = v],
                        order |-> Canonical]
           \/ \E sec \in {DefaultSections, StarSections} : \E o \in Orders :
                 inp = [kind |-> "file", sections |-> sec, order |-> o]
        /\ lines = Stream(inp.sections, inp.order)
        /\ ppc = "init"
     \/ /\ \E cell \in Structures : inp = [kind |-> "structure", cell |-> cell]
        /\ lines = <<>>
        /\ ppc = "write"
  /\ elements = NoElements
  /\ tags = NoTags
  /\ acell_angstrom = FALSE
  /\ result = None
  /\ SweepIdle
  /\ KappaIdle

\* write_abinit(filename, cell)
WriteAbinit ==
  /\ ppc = "write"
  /\ lines' = get_abinit_structure(inp.cell)
  /\ ppc' = "init"
  /\ UNCHANGED <<inp, elements, tags, acell_angstrom, result>>
  /\ UNCHANGED <<sweepVars, kappaVars>>

\* AbinitIn._collect, to the test for natom and ntypat: "... is not found in
\* the input file." and sys.exit(1)
Collect ==
  /\ ppc = "init"
  /\ elements' = CollectElements(Split(lines))
  /\ \/ /\ \E t \in {"natom", "ntypat"} : IsNone(elements'[t])
        /\ ppc' = "exit_reported"
     \/ /\ \A t \in {"natom", "ntypat"} : ~IsNone(elements'[t])
        /\ ppc' = "collected"
  /\ UNCHANGED <<inp, lines, tags, acell_angstrom, result>>
  /\ UNCHANGED <<sweepVars, kappaVars>>

\* AbinitIn._collect, the loop that sets natom and ntypat
SetCounts ==
  /\ ppc = "collected"
  /\ LET n == set_natom(Get(elements["natom"]))
         t == set_ntypat(Get(elements["ntypat"]))
     IN \/ /\ n.ok /\ t.ok
           /\ tags' = [tags EXCEPT !["natom"] = Some(n.val), !["ntypat"] = Some(t.val)]
           /\ ppc' = "counted"
        \/ /\ ~(n.ok /\ t.ok)
           /\ ppc' = "crashed"
           /\ UNCHANGED tags
  /\ UNCHANGED <<inp, lines, elements, acell_angstrom, result>>
  /\ UNCHANGED <<sweepVars, kappaVars>>

\* AbinitIn._collect, the loop that sets the other sections
SetOthers ==
  /\ ppc = "counted"
  /\ LET r == SetOthersResult(elements, Get(tags["natom"]), Get(tags["ntypat"]))
     IN \/ /\ r.ok
           /\ tags' = r.tags
           /\ acell_angstrom' = r.angstrom
           /\ ppc' = "parsed"
        \/ /\ ~r.ok
           /\ ppc' = "crashed"
           /\ UNCHANGED <<tags, acell_angstrom>>
  /\ UNCHANGED <<inp, lines, elements, result>>
  /\ UNCHANGED <<sweepVars, kappaVars>>

\* read_abinit, after AbinitIn(...): the structure, or an exception
ReadAbinit ==
  /\ ppc = "parsed"
  /\ LET r == read_abinit(tags)
     IN \/ /\ r.ok
           /\ result' = r.atoms
           /\ ppc' = "returned"
        \/ /\ ~r.ok
           /\ ppc' = "read_raised"
           /\ UNCHANGED result
  /\ UNCHANGED <<inp, lines, elements, tags, acell_angstrom>>
  /\ UNCHANGED <<sweepVars, kappaVars>>

NextAbinit == WriteAbinit \/ Collect \/ SetCounts \/ SetOthers \/ ReadAbinit

SpecAbinit == InitAbinit /\ [][NextAbinit]_vars


-----------------------------------------------------------------------------
(* Properties of the adapter *)

Ended == ppc \in {"returned", "crashed", "exit_reported", "read_raised"}

\* the values a list of numeric tokens stands for: N*v is N copies of v
RECURSIVE Expand(_)
Expand(toks) ==
  IF Len(toks) = 0 \/ Head(toks).kind \notin {"num", "star"} THEN <<>>
  ELSE Repeat(Head(toks).v, Head(toks).m) \o Expand(Tail(toks))

\* whether every token of the list is a number, and an integer where the
\* section holds integers
AllNumeric(toks, num_type) ==
  \A i \in 1..Len(toks) :
    /\ toks[i].kind \in {"num", "star"}
    /\ num_type = "int" => ~toks[i].dec

NumTypeOf(t) == IF t \in {"natom", "ntypat", "typat", "znucl"} THEN "int" ELSE "float"

\* the number of values section t must hold, given the file's natom and ntypat
Needed(t, natom, ntypat) ==
  CASE t = "acell" -> 3
    [] t = "rprim" -> 9
    [] t = "typat" -> natom
    [] t = "xred" -> 3 * natom
    [] t = "znucl" -> ntypat
    [] OTHER -> 1

\* section t of the file is there and holds enough numbers
SectionComplete(sections, t) ==
  /\ ~IsNone(sections[t])
  /\ LET toks == Get(sections[t])
         counts == \A c \in {"natom", "ntypat"} :
                     /\ ~IsNone(sections[c])
                     /\ Len(Get(sections[c])) > 0
                     /\ Get(sections[c])[1].kind = "num"
     IN /\ counts
        /\ AllNumeric(toks, NumTypeOf(t))
        /\ Len(Expand(toks)) >=
             Needed(t, Get(sections["natom"])[1].v, Get(sections["ntypat"])[1].v)

\* C1: writing a structure with get_abinit_structure and reading the text back
\* with read_abinit gives the structure written: the same lattice vectors, the
\* same fractional coordinates, the same atomic number for every atom.
C1_RoundTrip ==
  inp.kind = "structure" =>
    /\ ppc \notin {"crashed", "exit_reported", "read_raised"}
    /\ ppc = "returned" => Get(result) = inp.cell

\* C4: read_abinit returns a structure only for a file in which each of the
\* seven sections is present and holds enough numeric values; any other file
\* ends in a report or an exception.
C4_MalformedIsFatal ==
  (inp.kind = "file" /\ ppc = "returned") =>
    \A t \in Tags : SectionComplete(inp.sections, t)

\* the value AbinitIn must give section t of a file whose value list for t
\* holds enough numbers: the first K values of the expanded list
FirstK(sections, t) ==
  LET vals == Take(Expand(Get(sections[t])),
                   Needed(t, Get(sections["natom"])[1].v, Get(sections["ntypat"])[1].v))
  IN IF t \in {"rprim", "xred"} THEN Rows3(vals) ELSE vals

ValueTags == {"acell", "rprim", "typat", "xred", "znucl"}

\* C6: a section of acell, rprim, typat, xred or znucl whose value list, with
\* every N*v counted as N copies of v, holds at least K values is parsed to
\* exactly the first K values of the expanded list (and acell is left in the
\* unit given when no unit marker follows).
C6_Multiplicity ==
  (inp.kind = "file" /\ ppc \in {"parsed", "returned"}) =>
    \A t \in ValueTags :
      SectionComplete(inp.sections, t) =>
        /\ tags[t] = Some(FirstK(inp.sections, t))
        /\ t = "acell" => ~acell_angstrom

\* a star token of some section straddles the section's K-th value
C6_Witness ==
  /\ inp.kind = "file" /\ ppc = "parsed"
  /\ \E t \in ValueTags :
       /\ SectionComplete(inp.sections, t)
       /\ \E i \in 1..Len(Get(inp.sections[t])) :
            LET toks == Get(inp.sections[t])
                K == Needed(t, Get(inp.sections["natom"])[1].v,
                            Get(inp.sections["ntypat"])[1].v)
            IN /\ toks[i].kind = "star"
               /\ Len(Expand(SubSeq(toks, 1, i - 1))) < K
               /\ Len(Expand(SubSeq(toks, 1, i))) > K

\* AbinitIn(lines): how the constructor ends and the tags it leaves
AbinitIn(text) ==
  LET el == CollectElements(Split(text))
      n == set_natom(Get(el["natom"]))
      t == set_ntypat(Get(el["ntypat"]))
      r == SetOthersResult(el, n.val, t.val)
  IN IF \E c \in {"natom", "ntypat"} : IsNone(el[c])
     THEN [end |-> "exit_reported", tags |-> NoTags, angstrom |-> FALSE]
     ELSE IF ~(n.ok /\ t.ok) \/ ~r.ok
     THEN [end |-> "crashed", tags |-> NoTags, angstrom |-> FALSE]
     ELSE [end |-> "parsed", tags |-> r.tags, angstrom |-> r.angstrom]

\* the acell section without the unit marker that may end it
WithoutUnit(sections) ==
  IF IsNone(sections["acell"]) THEN sections
  ELSE LET a == Get(sections["acell"])
       IN IF Len(a) > 0 /\ a[Len(a)].kind = "unit"
          THEN [sections EXCEPT !["acell"] = Some(SubSeq(a, 1, Len(a) - 1))]
          ELSE sections

WellFormed(sections) == \A t \in Tags : SectionComplete(WithoutUnit(sections), t)

\* C10: for a well-formed file, the tags AbinitIn leaves are those it leaves
\* for the same sections in the canonical order, whatever the order of the
\* sections in the file.
C10_OrderIndependent ==
  (inp.kind = "file" /\ WellFormed(inp.sections)) =>
    /\ ppc \notin {"crashed", "exit_reported"}
    /\ ppc \in {"parsed", "returned", "read_raised"} =>
         LET ref == AbinitIn(Stream(inp.sections, Canonical))
         IN /\ ref.end = "parsed"
            /\ tags = ref.tags
            /\ acell_angstrom = ref.angstrom

\* position of a tag's section in the file
PosOf(order, t) == CHOOSE i \in 1..7 : TagOrder[order[i]] = t

\* a file parsed with typat and xred before natom, and znucl before ntypat
C10_Witness ==
  /\ inp.kind = "file" /\ ppc = "parsed" /\ WellFormed(inp.sections)
  /\ PosOf(inp.order, "typat") < PosOf(inp.order, "natom")
  /\ PosOf(inp.order, "xred") < PosOf(inp.order, "natom")
  /\ PosOf(inp.order, "znucl") < PosOf(inp.order, "ntypat")
  /\ \E i \in 1..Len(Get(inp.sections["typat"])) : Get(inp.sections["typat"])[i].kind = "star"


-----------------------------------------------------------------------------
(* Phono3py.__init__, get_imag_self_energy, get_linewidth *)

(* Frequencies, sigmas and frequency steps are counted in quarters (1.0 is 4);
   temperatures in half kelvins (10 K is 20).  A Python int keeps its value
   n and the flag is_int: Python 2 divides two ints to an int. *)

IntStep(n) == [is_int |-> TRUE, n |-> n, q |-> 4 * n]
FloatStep(q) == [is_int |-> FALSE, n |-> 0, q |-> q]

\* frequency_step / 2, in quarters: of two ints the floor, else the half
HalfOfStep(step) == IF step.is_int THEN 4 * (step.n \div 2) ELSE step.q \div 2

\* np.arange(start, stop, step) for step > 0: start + k * step for every
\* k >= 0 with start + k * step < stop
Arange(start, stop, step) ==
  LET n == IF stop > start THEN (stop - start + step - 1) \div step ELSE 0
  IN [k \in 1..n |-> start + (k - 1) * step]

\* np.arange(primitive.get_number_of_atoms() * 3)
BandRange(natom) == [k \in 1..(3 * natom) |-> k - 1]

\* Phono3py.__init__: self._band_indices and self._band_indices_flatten
Phono3pyInit(natom, band_indices) ==
  LET groups == IF IsNone(band_indices) THEN <<BandRange(natom)>> ELSE Get(band_indices)
  IN [band_indices |-> groups, band_indices_flatten |-> Concat(groups),
      kappa |-> None, gamma |-> None]

RECURSIVE PosLoop(_, _, _)
\* pos = 0; for j in range(i): pos += len(self._band_indices[j])   (i from 0)
PosLoop(groups, i, j) ==
  IF j >= i THEN 0 ELSE Len(groups[j + 1]) + PosLoop(groups, i, j + 1)

\* a changed position: the index of the group instead of the bands before it
WritePosIndex(groups, i) == i

\* the first column of group i (i from 0) in gamma
WritePos(groups, i) == PosLoop(groups, i, 0)

\* max_freq = np.amax(get_phonons()[0]) * 2 + sigma * 4, and
\* fpoints = np.arange(0, max_freq + frequency_step / 2, frequency_step)
Fpoints(amax, sigma, step) ==
  Arange(0, amax * 2 + sigma * 4 + HalfOfStep(step), step.q)

\* temperatures = np.arange(t_min, t_max + t_step / 2.0, t_step), in half kelvins
LinewidthTemperatures(t_min, t_max, t_step) ==
  Arange(2 * t_min, 2 * t_max + t_step, 2 * t_step)

\* the ImagSelfEnergy object: every setter stores its argument, run() computes
\* the result from what is stored at that moment
IseNew == [grid_point |-> None, interaction |-> None, sigma |-> None,
           temperature |-> None, fpoints |-> None, result |-> None]

IseConfig(o) == [grid_point |-> o.grid_point, interaction |-> o.interaction,
                 sigma |-> o.sigma, temperature |-> o.temperature,
                 fpoints |-> o.fpoints]

Methods == {"set_grid_point", "run_interaction", "set_sigma", "set_temperature",
            "set_fpoints", "run", "get_imag_self_energy"}

\* one more call of method m of the ImagSelfEnergy object
Called(m) == [hist EXCEPT !.clock = @ + 1, !.last[m] = hist.clock + 1]

Freqs == {2, 4}
Sigmas == {1, 2}
GridPoints == {0, 7}
Temperatures == {0, 600}
FrequencySteps == {IntStep(1), IntStep(2), IntStep(3),
                   FloatStep(2), FloatStep(4), FloatStep(6)}
\* frequency_step=1.0, the default
DefaultStep == FloatStep(4)

SeqsUpTo(S, n) == UNION {[1..k -> S] : k \in 1..n}

RECURSIVE SumTo(_, _)
SumTo(lens, g) == IF g = 0 THEN 0 ELSE lens[g] + SumTo(lens, g - 1)

\* band groups of the lengths lens, filled with the bands in the order given
\* (and again from its start when the lengths add up to more than 3N bands)
Chunks(order, lens) ==
  [g \in 1..Len(lens) |->
     [k \in 1..lens[g] |-> order[((SumTo(lens, g - 1) + k - 1) % Len(order)) + 1]]]

BandOrders(natom) == {BandRange(natom), [k \in 1..(3 * natom) |-> 3 * natom - k]}

BandIndices(natom) ==
  {None} \cup {Some(Chunks(order, lens)) :
                 order \in BandOrders(natom),
                 lens \in SeqsUpTo(1..MaxGroupLen, MaxGroups)}

\* the arguments of get_linewidth: the range ends on a temperature of the
\* range or half a step after it
LinewidthRanges ==
  {[t_min |-> t0, t_step |-> 100, t_max |-> t0 + 100 * k + e] :
     t0 \in {0, 300}, k \in 0..(MaxTemps - 1), e \in {0, 50}}

SweepStart(call, natom, band_indices) ==
  /\ swp = call @@ [natom |-> natom, band_indices |-> band_indices]
  /\ self = Phono3pyInit(natom, band_indices)
  /\ spc = "gp"
  /\ idx = [gp |-> 1, sigma |-> 1, t |-> 1, i |-> 0]
  /\ loc = [temperatures |-> IF call.op = "get_linewidth"
                             THEN LinewidthTemperatures(call.t_min, call.t_max, call.t_step)
                             ELSE call.temperatures,
            fpoints |-> None, gamma |-> <<>>]
  /\ ise = IseNew
  /\ cache_max = 0
  /\ hist = [clock |-> 0, last |-> [m \in Methods |-> 0], written |-> <<>>, reads |-> 0]

Call(op, gps, sigmas, temperatures, range, step) ==
  [op |-> op, grid_points |-> gps, sigmas |-> sigmas, temperatures |-> temperatures,
   t_min |-> range.t_min, t_max |-> range.t_max, t_step |-> range.t_step,
   frequency_step |-> step]

NoRange == [t_min |-> 0, t_max |-> 0, t_step |-> 0]

InitSweep ==
  /\ \/ \* the sweeps, with the default bands and the default step
        \E gps \in SeqsUpTo(GridPoints, MaxGp), sigmas \in SeqsUpTo(Sigmas, MaxSigmas) :
          \/ \E ts \in SeqsUpTo(Temperatures, MaxTemps) :
               SweepStart(Call("get_imag_self_energy", gps, sigmas, ts, NoRange, DefaultStep),
                          1, None)
          \/ \E r \in LinewidthRanges :
               SweepStart(Call("get_linewidth", gps, sigmas, <<>>, r, DefaultStep), 1, None)
     \/ \* the band groups
        \E natom \in 1..MaxAtoms : \E bi \in BandIndices(natom) :
          \/ SweepStart(Call("get_imag_self_energy", <<0>>, <<1>>, <<0>>, NoRange, DefaultStep),
                        natom, bi)
          \/ SweepStart(Call("get_linewidth", <<0>>, <<1>>, <<>>,
                             [t_min |-> 0, t_max |-> 100, t_step |-> 100], DefaultStep),
                        natom, bi)
     \/ \* the frequency steps
        \E step \in FrequencySteps, sigma \in Sigmas :
          SweepStart(Call("get_imag_self_energy", <<0>>, <<sigma>>, <<0>>, NoRange, step),
                     1, None)
  /\ AbinitIdle
  /\ KappaIdle

IsSelfEnergy == swp.op = "get_imag_self_energy"

\* for gp in grid_points: ise.set_grid_point(gp)
SetGridPoint ==
  /\ spc = "gp"
  /\ idx.gp <= Len(swp.grid_points)
  /\ ise' = [ise EXCEPT !.grid_point = Some(swp.grid_points[idx.gp])]
  /\ hist' = Called("set_grid_point")
  /\ spc' = "run_interaction"
  /\ UNCHANGED <<swp, self, idx, loc, cache_max>>
  /\ UNCHANGED <<abinitVars, kappaVars>>

\* the end of the loop over grid_points: the method returns
SweepReturn ==
  /\ spc = "gp"
  /\ idx.gp > Len(swp.grid_points)
  /\ spc' = "done"
  /\ UNCHANGED <<swp, self, idx, loc, ise, cache_max, hist>>
  /\ UNCHANGED <<abinitVars, kappaVars>>

\* ise.run_interaction(): the interaction of the grid point that is set; the
\* phonon cache gains frequencies, so its maximum does not fall
RunInteraction ==
  /\ spc = "run_interaction"
  /\ ise' = [ise EXCEPT !.interaction = ise.grid_point]
  /\ \E f \in Freqs : f >= cache_max /\ cache_max' = f
  /\ hist' = Called("run_interaction")
  /\ idx' = [idx EXCEPT !.sigma = 1]
  /\ spc' = "sigma"
  /\ UNCHANGED <<swp, self, loc>>
  /\ UNCHANGED <<abinitVars, kappaVars>>

\* for sigma in sigmas: ise.set_sigma(sigma); get_linewidth then makes a new
\* gamma of zeros
SetSigma ==
  /\ spc = "sigma"
  /\ idx.sigma <= Len(swp.sigmas)
  /\ ise' = [ise EXCEPT !.sigma = Some(swp.sigmas[idx.sigma])]
  /\ hist' = Called("set_sigma")
  /\ idx' = [idx EXCEPT !.t = 1]
  /\ loc' = [loc EXCEPT !.gamma = <<>>]
  /\ spc' = "temperature"
  /\ UNCHANGED <<swp, self, cache_max>>
  /\ UNCHANGED <<abinitVars, kappaVars>>

\* the end of the loop over sigmas: the next grid point
SigmasEnd ==
  /\ spc = "sigma"
  /\ idx.sigma > Len(swp.sigmas)
  /\ idx' = [idx EXCEPT !.gp = @ + 1]
  /\ spc' = "gp"
  /\ UNCHANGED <<swp, self, loc, ise, cache_max, hist>>
  /\ UNCHANGED <<abinitVars, kappaVars>>

\* for t in temperatures: ise.set_temperature(t)
SetTemperature ==
  /\ spc = "temperature"
  /\ idx.t <= Len(loc.temperatures)
  /\ ise' = [ise EXCEPT !.temperature = Some(loc.temperatures[idx.t])]
  /\ hist' = Called("set_temperature")
  /\ spc' = IF IsSelfEnergy THEN "fpoints" ELSE "run"
  /\ UNCHANGED <<swp, self, idx, loc, cache_max>>
  /\ UNCHANGED <<abinitVars, kappaVars>>

\* the end of the loop over temperatures: get_imag_self_energy goes to the
\* next sigma, get_linewidth writes the linewidths of this sigma
TemperaturesEnd ==
  /\ spc = "temperature"
  /\ idx.t > Len(loc.temperatures)
  /\ \/ /\ IsSelfEnergy
        /\ idx' = [idx EXCEPT !.sigma = @ + 1]
        /\ spc' = "sigma"
        /\ UNCHANGED hist
     \/ /\ ~IsSelfEnergy
        /\ idx' = [idx EXCEPT !.i = 0]
        /\ hist' = [hist EXCEPT !.written = <<>>]
        /\ spc' = "write"
  /\ UNCHANGED <<swp, self, loc, ise, cache_max>>
  /\ UNCHANGED <<abinitVars, kappaVars>>

\* get_imag_self_energy: max_freq, fpoints and ise.set_fpoints(fpoints)
SetFpoints ==
  /\ spc = "fpoints"
  /\ LET fpoints == Fpoints(cache_max, swp.sigmas[idx.sigma], swp.frequency_step)
     IN /\ loc' = [loc EXCEPT !.fpoints = Some(fpoints)]
        /\ ise' = [ise EXCEPT !.fpoints = Some(fpoints)]
  /\ hist' = Called("set_fpoints")
  /\ spc' = "run"
  /\ UNCHANGED <<swp, self, idx, cache_max>>
  /\ UNCHANGED <<abinitVars, kappaVars>>

\* ise.run()
IseRun ==
  /\ spc = "run"
  /\ ise' = [ise EXCEPT !.result = Some(IseConfig(ise))]
  /\ hist' = Called("run")
  /\ spc' = "read"
  /\ UNCHANGED <<swp, self, idx, loc, cache_max>>
  /\ UNCHANGED <<abinitVars, kappaVars>>

\* a changed loop of get_linewidth: run() is called for the first temperature
\* of a sigma only
IseGetResultNoRerun ==
  /\ spc = "read" \/ (spc = "run" /\ ~IsSelfEnergy /\ idx.t > 1)
  /\ hist' = [Called("get_imag_self_energy") EXCEPT
                !.reads = @ + 1,
                !.written = IF IsSelfEnergy THEN <<>> ELSE @]
  /\ \/ /\ IsSelfEnergy
        /\ loc' = [loc EXCEPT !.gamma = <<Get(ise.result)>>]
        /\ idx' = [idx EXCEPT !.i = 0]
        /\ spc' = "write"
     \/ /\ ~IsSelfEnergy
        /\ loc' = [loc EXCEPT !.gamma = Append(@, Get(ise.result))]
        /\ idx' = [idx EXCEPT !.t = @ + 1]
        /\ spc' = "temperature"
  /\ UNCHANGED <<swp, self, ise, cache_max>>
  /\ UNCHANGED <<abinitVars, kappaVars>>

\* gamma = ise.get_imag_self_energy() (get_linewidth: gamma[i] = ...)
IseGetResult ==
  /\ spc = "read"
  /\ hist' = [Called("get_imag_self_energy") EXCEPT
                !.reads = @ + 1,
                !.written = IF IsSelfEnergy THEN <<>> ELSE @]
  /\ \/ /\ IsSelfEnergy
        /\ loc' = [loc EXCEPT !.gamma = <<Get(ise.result)>>]
        /\ idx' = [idx EXCEPT !.i = 0]
        /\ spc' = "write"
     \/ /\ ~IsSelfEnergy
        /\ loc' = [loc EXCEPT !.gamma = Append(@, Get(ise.result))]
        /\ idx' = [idx EXCEPT !.t = @ + 1]
        /\ spc' = "temperature"
  /\ UNCHANGED <<swp, self, ise, cache_max>>
  /\ UNCHANGED <<abinitVars, kappaVars>>

\* for i, bi in enumerate(self._band_indices): write_damping_functions or
\* write_linewidth of the columns pos .. pos + len(bi) - 1 of gamma
WriteGroup ==
  /\ spc = "write"
  /\ idx.i < Len(self.band_indices)
  /\ LET bi == self.band_indices[idx.i + 1]
         pos == WritePos(self.band_indices, idx.i)
     IN hist' = [hist EXCEPT !.written =
                   Append(@, [i |-> idx.i, bi |-> bi, first |-> pos,
                              stop |-> pos + Len(bi)])]
  /\ idx' = [idx EXCEPT !.i = @ + 1]
  /\ UNCHANGED <<swp, self, spc, loc, ise, cache_max>>
  /\ UNCHANGED <<abinitVars, kappaVars>>

\* the end of the loop over the band groups
WriteEnd ==
  /\ spc = "write"
  /\ idx.i >= Len(self.band_indices)
  /\ \/ /\ IsSelfEnergy
        /\ idx' = [idx EXCEPT !.t = @ + 1]
        /\ spc' = "temperature"
     \/ /\ ~IsSelfEnergy
        /\ idx' = [idx EXCEPT !.sigma = @ + 1]
        /\ spc' = "sigma"
  /\ UNCHANGED <<swp, self, loc, ise, cache_max, hist>>
  /\ UNCHANGED <<abinitVars, kappaVars>>

NextSweep ==
  \/ SetGridPoint \/ SweepReturn \/ RunInteraction \/ SetSigma \/ SigmasEnd
  \/ SetTemperature \/ TemperaturesEnd \/ SetFpoints \/ IseRun \/ IseGetResult
  \/ WriteGroup \/ WriteEnd

SpecSweep == InitSweep /\ [][NextSweep]_vars


-----------------------------------------------------------------------------
(* Properties of the sweeps *)

Last(m) == hist.last[m]
CurrentGp == Some(swp.grid_points[idx.gp])
CurrentSigma == Some(swp.sigmas[idx.sigma])

\* the state right after a call of run(): the grid point, its interaction,
\* the sigma and the temperature of this iteration were set, in this order
RunAfterSetup ==
  /\ 0 < Last("set_grid_point")
  /\ Last("set_grid_point") < Last("run_interaction")
  /\ Last("run_interaction") < Last("set_sigma")
  /\ Last("set_sigma") < Last("set_temperature")
  /\ Last("set_temperature") < Last("run")
  /\ Last("run") = hist.clock
  /\ ise.grid_point = CurrentGp
  /\ ise.interaction = CurrentGp
  /\ ise.sigma = CurrentSigma
  /\ ise.temperature = Some(loc.temperatures[idx.t])

\* ... and so were the frequency points, after the temperature
RunAfterFpoints ==
  /\ Last("set_temperature") < Last("set_fpoints")
  /\ Last("set_fpoints") < Last("run")
  /\ ~IsNone(ise.fpoints)
  /\ ise.fpoints = loc.fpoints

\* the state right after a call of get_imag_self_energy(): run() was called
\* after every setter, and the result read is that of the configuration as
\* it stands
ReadAfterRun ==
  /\ \A m \in Methods \ {"run", "get_imag_self_energy"} : Last(m) < Last("run")
  /\ Last("run") < Last("get_imag_self_energy")
  /\ loc.gamma[Len(loc.gamma)] = IseConfig(ise)

JustRan == spc = "read"
JustRead == hist.reads > 0 /\ Last("get_imag_self_energy") = hist.clock

\* C2 as stated: in get_imag_self_energy and in get_linewidth every run() comes
\* after set_grid_point, run_interaction, set_sigma, set_temperature and
\* set_fpoints, in this order, for the values of the iteration, and every
\* result is read from a run made after the last setter call.
C2_SetupBeforeRun ==
  /\ JustRan => (RunAfterSetup /\ RunAfterFpoints)
  /\ JustRead => ReadAfterRun

\* C2, amended: as stated in get_imag_self_energy; in get_linewidth every run()
\* comes after set_grid_point, run_interaction, set_sigma and set_temperature,
\* in this order, and set_fpoints is never called; in both, every result is
\* read from a run made after the last setter call.
C2_SetupBeforeRunAmended ==
  /\ JustRan => RunAfterSetup
  /\ (JustRan /\ IsSelfEnergy) => RunAfterFpoints
  /\ ~IsSelfEnergy => (Last("set_fpoints") = 0 /\ IsNone(ise.fpoints))
  /\ JustRead => ReadAfterRun

\* get_linewidth has just read the result of the second temperature of the
\* second sigma of the second grid point
C2_Witness ==
  /\ ~IsSelfEnergy /\ JustRead
  /\ idx.gp = 2 /\ idx.sigma = 2 /\ idx.t = 3 /\ spc = "temperature"

\* the columns of gamma a write took
Columns(w) == {c \in 0..(Len(self.band_indices_flatten) - 1) : w.first <= c /\ c < w.stop}

\* C8: without band_indices there is one group, the bands 0 .. 3N-1; group i is
\* written from the columns p_i .. p_i + len(group i) - 1 with p_i the total
\* length of the groups before it; the column ranges of distinct groups are
\* disjoint and together are every column of the flattened band list, and
\* column p_i + k is the k-th band of group i.
C8_BandGroupColumns ==
  /\ IsNone(swp.band_indices) =>
       /\ Len(self.band_indices) = 1
       /\ self.band_indices[1] = [k \in 1..(3 * swp.natom) |-> k - 1]
  /\ \A n \in 1..Len(hist.written) :
       LET w == hist.written[n]
       IN /\ w.i = n - 1
          /\ w.bi = self.band_indices[n]
          /\ w.first = Len(Concat(SubSeq(self.band_indices, 1, n - 1)))
          /\ w.stop = w.first + Len(w.bi)
          /\ \A k \in 1..Len(w.bi) : self.band_indices_flatten[w.first + k] = w.bi[k]
          /\ \A o \in 1..Len(hist.written) :
               o # n => Columns(w) \cap Columns(hist.written[o]) = {}
  /\ (spc = "write" /\ idx.i = Len(self.band_indices)) =>
       UNION {Columns(hist.written[n]) : n \in 1..Len(hist.written)}
         = 0..(Len(self.band_indices_flatten) - 1)

\* two groups of different lengths were written, the second of two bands
C8_Witness ==
  /\ spc = "write" /\ Len(hist.written) = 2
  /\ Len(hist.written[1].bi) = 1 /\ Len(hist.written[2].bi) = 2
  /\ hist.written[2].bi[1] > hist.written[2].bi[2]

\* the frequency points the claim names: every multiple of the step below
\* U + step / 2, U = 2 * amax + 4 * sigma, in increasing order (twice the
\* quantities are compared, so that the half step is exact)
ClaimedFpoints(amax, sigma, q) ==
  LET U == 2 * amax + 4 * sigma
      n == Cardinality({k \in 0..(U + q) : 2 * k * q < 2 * U + q})
  IN [k \in 1..n |-> (k - 1) * q]

\* C9: the points passed to set_fpoints are 0, step, 2 * step, ...: every
\* multiple of frequency_step below U + step / 2 and none at or above it, with
\* U = 2 * (maximum cached frequency) + 4 * sigma.
C9_FrequencyPoints ==
  (IsSelfEnergy /\ spc = "run") =>
    Get(loc.fpoints) = ClaimedFpoints(cache_max, swp.sigmas[idx.sigma], swp.frequency_step.q)

-----------------------------------------------------------------------------
(* Phono3py.get_thermal_conductivity.  The conductivity_RTA object and the
   persistence collaborator are not part of the source at hand: they are
   modelled from the specification.  A gamma array is the record of the run it
   was computed for: its mesh, its grid point and its sigma.  Temperatures are
   in kelvins. *)

\* the six columns of the table: xx, yy, zz, yz, xz, xy
NComp == 6

Mesh == <<2, 2, 2>>
OtherMesh == <<4, 4, 4>>
KappaSeeds == {1, 2}

\* the key of a persisted gamma array, and the array a run with this mesh
\* computes for this grid point and this sigma
GammaOf(mesh, grid_point, sigma) == [mesh |-> mesh, grid_point |-> grid_point, sigma |-> sigma]

StoreKeys == {GammaOf(Mesh, g, sg) : g \in 0..(MaxGp - 1), sg \in Sigmas}

\* every temperature of the configured range, ascending
RangeTemperatures(t_min, t_max, t_step) ==
  [k \in 1..((t_max - t_min) \div t_step + 1) |-> t_min + (k - 1) * t_step]

\* br = conductivity_RTA(self._interaction, sigmas=sigmas, t_max=t_max, ...)
conductivity_RTA(a) ==
  [sigmas |-> a.sigmas,
   temperatures |-> RangeTemperatures(a.t_min, a.t_max, a.t_step),
   mesh |-> a.mesh, grid_points |-> None, gamma |-> None, kappa |-> None]

\* br.set_grid_points(grid_points): the grid points given, or without them the
\* irreducible grid points of the mesh
set_grid_points(b, grid_points, ir_grid_points) ==
  [b EXCEPT !.grid_points = IF IsNone(grid_points) THEN Some(ir_grid_points) ELSE grid_points]

\* read_gamma_from_hdf5(mesh, grid_point=gp, sigma=sigma, ...): the array held
\* under the key; without one the read is reported and the run halts
read_gamma_from_hdf5(st, mesh, grid_point, sigma) ==
  LET held == st[GammaOf(mesh, grid_point, sigma)]
  IN IF IsNone(held) THEN Fail ELSE Ok(Get(held))

\* br.set_gamma(gamma): the scattering rates are taken as given
set_gamma(b, gamma) == [b EXCEPT !.gamma = Some(gamma)]

\* the contribution of a mode to a component of kappa in the run with this seed
ModeKappa(seed, s, g, t, bnd, c) == (seed * s + 2 * g + 3 * t + 5 * bnd + c * (g + t)) % 7

\* br.calculate_kappa(...): kappa of every (sigma, grid point, temperature,
\* band, component), and gamma of every (sigma, grid point) not injected
calculate_kappa(b, seed, num_band) ==
  LET gps == Get(b.grid_points)
  IN [b EXCEPT
        !.kappa = Some([s \in 1..Len(b.sigmas) |-> [g \in 1..Len(gps) |->
                     [t \in 1..Len(b.temperatures) |-> [bnd \in 1..num_band |->
                        [c \in 1..NComp |-> ModeKappa(seed, s, g, t, bnd, c)]]]]]),
        !.gamma = IF IsNone(b.gamma)
                  THEN Some([s \in 1..Len(b.sigmas) |-> [g \in 1..Len(gps) |->
                               GammaOf(b.mesh, gps[g], b.sigmas[s])]])
                  ELSE b.gamma]

RECURSIVE SumOver(_, _)
\* a[1] + ... + a[n], component by component, of rows of numbers
SumOver(a, n) ==
  IF n = 1 THEN a[1] ELSE [c \in DOMAIN a[n] |-> SumOver(a, n - 1)[c] + a[n][c]]

\* x.sum(axis=2) of x[grid point][temperature][band][component]
SumAxis2(x) == [g \in 1..Len(x) |-> [t \in 1..Len(x[g]) |-> SumOver(x[g][t], Len(x[g][t]))]]

\* y.sum(axis=0) of y[a][b][component]
SumAxis0(y) ==
  [j \in 1..Len(y[1]) |-> SumOver([a \in 1..Len(y) |-> y[a][j]], Len(y))]

\* x.sum(axis=1) of x[grid point][temperature][band][component]
SumAxis1(x) ==
  [g \in 1..Len(x) |-> [bnd \in 1..Len(x[g][1]) |->
     SumOver([t \in 1..Len(x[g]) |-> x[g][t][bnd]], Len(x[g]))]]

\* a changed sum: over the temperatures instead of the bands
ConsoleKappaAxis1(mode_kappa_i) == SumAxis0(SumAxis1(mode_kappa_i))

\* kappa = mode_kappa[i].sum(axis=2).sum(axis=0)
ConsoleKappa(mode_kappa_i) == SumAxis0(SumAxis2(mode_kappa_i))

\* a changed loop: over the grid points of the call
EnumerateArgGridPoints(b, a) == IF IsNone(a.grid_points) THEN <<>> ELSE Get(a.grid_points)

\* for i, gp in enumerate(br.get_grid_points())
EnumerateGridPoints(b, a) == Get(b.grid_points)

\* a line of the console
HeaderLine(sigma) == [kind |-> "header", sigma |-> sigma, t |-> 0, k |-> <<>>]
ColumnsLine == [kind |-> "columns", sigma |-> 0, t |-> 0, k |-> <<>>]
RowLine(t, k) == [kind |-> "row", sigma |-> 0, t |-> t, k |-> k]
BlankLine == [kind |-> "blank", sigma |-> 0, t |-> 0, k |-> <<>>]

\* a call of the conductivity object or of the persistence collaborator
CallOf(m, sigma, grid_point) == [m |-> m, sigma |-> sigma, grid_point |-> grid_point]
Logged(c) == [out EXCEPT !.calls = Append(@, c)]

\* the state of get_imag_self_energy and get_linewidth while they are not called
SweepLocalsIdle ==
  /\ swp = [op |-> "none"]
  /\ spc = "idle"
  /\ idx = [op |-> "none"]
  /\ loc = [op |-> "none"]
  /\ ise = [op |-> "none"]
  /\ cache_max = 0
  /\ hist = [op |-> "none"]

sweepLocals == <<swp, spc, idx, loc, ise, cache_max, hist>>

KappaRanges ==
  {[t_min |-> t0, t_step |-> 10, t_max |-> t0 + 10 * k] :
     t0 \in {0, 300}, k \in 0..(MaxTemps - 1)}

\* the grid points of a call: none given, or some of the mesh
KappaGridPoints == {None} \cup {Some(g) : g \in SeqsUpTo(0..(MaxGp - 1), MaxGp)}

\* what the persistence collaborator holds: for every key the array of that
\* key, but for at most one key nothing, or an array persisted for another
\* mesh or for another grid point
GoodStore == [k \in StoreKeys |-> Some(k)]
Stores ==
  {GoodStore}
    \cup {[GoodStore EXCEPT ![k] = None] : k \in StoreKeys}
    \cup {[GoodStore EXCEPT ![k] = Some([k EXCEPT !.mesh = OtherMesh])] : k \in StoreKeys}
    \cup {[GoodStore EXCEPT ![k] = Some([k EXCEPT !.grid_point = (@ + 1) % MaxGp])] :
            k \in StoreKeys}

KappaStart(sigmas, grid_points, range, read_gamma, ir, seed, natom, st) ==
  /\ args = [sigmas |-> sigmas, grid_points |-> grid_points,
             t_min |-> range.t_min, t_max |-> range.t_max, t_step |-> range.t_step,
             read_gamma |-> read_gamma, mesh |-> Mesh,
             ir_grid_points |-> [g \in 1..ir |-> g - 1], seed |-> seed]
  /\ self = Phono3pyInit(natom, None)
  /\ kpc = "construct"
  /\ br = None
  /\ kidx = [sigma |-> 1, gp |-> 1, t |-> 1]
  /\ kloc = [gamma |-> None, gamma_at_sigma |-> <<>>, mode_kappa |-> None,
             temperatures |-> <<>>, kappa |-> <<>>]
  /\ store = st
  /\ out = [calls |-> <<>>, console |-> <<>>, writes |-> <<>>]

InitKappa ==
  /\ \/ \* resumption: what is read, and from which store
        \E sigmas \in SeqsUpTo(Sigmas, MaxSigmas), gps \in KappaGridPoints,
           ir \in 1..MaxGp, st \in Stores, rg \in BOOLEAN :
          KappaStart(sigmas, gps, [t_min |-> 0, t_max |-> 0, t_step |-> 10], rg,
                     ir, 1, 1, st)
     \/ \* the summary: the ranges and the numbers of the run
        \E sigmas \in SeqsUpTo(Sigmas, MaxSigmas), gps \in {None, Some(<<0>>)},
           ir \in 1..MaxGp, r \in KappaRanges, seed \in KappaSeeds :
          KappaStart(sigmas, gps, r, FALSE, ir, seed, 1, GoodStore)
  /\ AbinitIdle
  /\ SweepLocalsIdle

\* br = conductivity_RTA(...)
Construct ==
  /\ kpc = "construct"
  /\ br' = Some(conductivity_RTA(args))
  /\ kpc' = "set_grid_points"
  /\ UNCHANGED <<args, kidx, kloc, store, out>>
  /\ UNCHANGED <<abinitVars, sweepLocals, self>>

\* br.set_grid_points(grid_points); if read_gamma: gamma = []
SetGridPoints ==
  /\ kpc = "set_grid_points"
  /\ br' = Some(set_grid_points(Get(br), args.grid_points, args.ir_grid_points))
  /\ out' = Logged(CallOf("set_grid_points", None, None))
  /\ IF args.read_gamma
     THEN /\ kpc' = "read"
          /\ kloc' = [kloc EXCEPT !.gamma = Some(<<>>), !.gamma_at_sigma = <<>>]
     ELSE /\ kpc' = "calculate"
          /\ UNCHANGED kloc
  /\ UNCHANGED <<args, kidx, store>>
  /\ UNCHANGED <<abinitVars, sweepLocals, self>>

\* gamma_at_sigma.append(read_gamma_from_hdf5(br.get_mesh_numbers(), ...))
ReadGamma ==
  /\ kpc = "read"
  /\ kidx.sigma <= Len(args.sigmas)
  /\ kidx.gp <= Len(EnumerateGridPoints(Get(br), args))
  /\ LET gp == EnumerateGridPoints(Get(br), args)[kidx.gp]
         sigma == args.sigmas[kidx.sigma]
         r == read_gamma_from_hdf5(store, Get(br).mesh, gp, sigma)
     IN /\ out' = Logged(CallOf("read_gamma_from_hdf5", Some(sigma), Some(gp)))
        /\ IF r.ok
           THEN /\ kloc' = [kloc EXCEPT !.gamma_at_sigma = Append(@, r.vals)]
                /\ kidx' = [kidx EXCEPT !.gp = @ + 1]
                /\ kpc' = "read"
           ELSE /\ kpc' = "halted"
                /\ UNCHANGED <<kloc, kidx>>
  /\ UNCHANGED <<args, br, store>>
  /\ UNCHANGED <<abinitVars, sweepLocals, self>>

\* gamma.append(gamma_at_sigma), and the next sigma: gamma_at_sigma = []
AppendGammaAtSigma ==
  /\ kpc = "read"
  /\ kidx.sigma <= Len(args.sigmas)
  /\ kidx.gp > Len(EnumerateGridPoints(Get(br), args))
  /\ kloc' = [kloc EXCEPT !.gamma = Some(Append(Get(@), kloc.gamma_at_sigma)),
                          !.gamma_at_sigma = <<>>]
  /\ kidx' = [kidx EXCEPT !.sigma = @ + 1, !.gp = 1]
  /\ UNCHANGED <<args, kpc, br, store, out>>
  /\ UNCHANGED <<abinitVars, sweepLocals, self>>

\* br.set_gamma(np.double(gamma))
SetGamma ==
  /\ kpc = "read"
  /\ kidx.sigma > Len(args.sigmas)
  /\ br' = Some(set_gamma(Get(br), Get(kloc.gamma)))
  /\ out' = Logged(CallOf("set_gamma", None, None))
  /\ kpc' = "calculate"
  /\ UNCHANGED <<args, kidx, kloc, store>>
  /\ UNCHANGED <<abinitVars, sweepLocals, self>>

\* br.calculate_kappa(...)
CalculateKappa ==
  /\ kpc = "calculate"
  /\ br' = Some(calculate_kappa(Get(br), args.seed, Len(self.band_indices_flatten)))
  /\ out' = Logged(CallOf("calculate_kappa", None, None))
  /\ kpc' = "get"
  /\ UNCHANGED <<args, kidx, kloc, store>>
  /\ UNCHANGED <<abinitVars, sweepLocals, self>>

\* a changed test: the summary and the writes whatever the grid points
GetResultsAlwaysPrint ==
  /\ kpc = "get"
  /\ kloc' = [kloc EXCEPT !.mode_kappa = Get(br).kappa, !.gamma = Get(br).gamma,
                           !.temperatures = Get(br).temperatures]
  /\ kpc' = "sigma"
  /\ kidx' = [kidx EXCEPT !.sigma = 1]
  /\ UNCHANGED <<args, br, store, out>>
  /\ UNCHANGED <<abinitVars, sweepLocals, self>>

\* mode_kappa = br.get_kappa(); gamma = br.get_gamma(); if grid_points is None:
\* temperatures = br.get_temperatures()
GetResults ==
  /\ kpc = "get"
  /\ IF IsNone(args.grid_points)
     THEN /\ kloc' = [kloc EXCEPT !.mode_kappa = Get(br).kappa, !.gamma = Get(br).gamma,
                                  !.temperatures = Get(br).temperatures]
          /\ kpc' = "sigma"
     ELSE /\ kloc' = [kloc EXCEPT !.mode_kappa = Get(br).kappa, !.gamma = Get(br).gamma]
          /\ kpc' = "store"
  /\ kidx' = [kidx EXCEPT !.sigma = 1]
  /\ UNCHANGED <<args, br, store, out>>
  /\ UNCHANGED <<abinitVars, sweepLocals, self>>

\* for i, sigma in enumerate(sigmas): kappa = ...; the two lines of the header
PrintHeader ==
  /\ kpc = "sigma"
  /\ kidx.sigma <= Len(args.sigmas)
  /\ kloc' = [kloc EXCEPT !.kappa = ConsoleKappa(Get(kloc.mode_kappa)[kidx.sigma])]
  /\ out' = [out EXCEPT !.console = @ \o <<HeaderLine(args.sigmas[kidx.sigma]), ColumnsLine>>]
  /\ kidx' = [kidx EXCEPT !.t = 1]
  /\ kpc' = "rows"
  /\ UNCHANGED <<args, br, store>>
  /\ UNCHANGED <<abinitVars, sweepLocals, self>>

\* for t, k in zip(temperatures, kappa): print ...
PrintRow ==
  /\ kpc = "rows"
  /\ kidx.t <= Min(Len(kloc.temperatures), Len(kloc.kappa))
  /\ out' = [out EXCEPT !.console = Append(@, RowLine(kloc.temperatures[kidx.t],
                                                      kloc.kappa[kidx.t]))]
  /\ kidx' = [kidx EXCEPT !.t = @ + 1]
  /\ UNCHANGED <<args, kpc, br, kloc, store>>
  /\ UNCHANGED <<abinitVars, sweepLocals, self>>

\* print; write_kappa_to_hdf5(gamma[i], temperatures, ..., kappa=kappa, sigma=sigma)
WriteKappa ==
  /\ kpc = "rows"
  /\ kidx.t > Min(Len(kloc.temperatures), Len(kloc.kappa))
  /\ out' = [out EXCEPT !.console = Append(@, BlankLine),
                        !.writes = Append(@, [gamma |-> Get(kloc.gamma)[kidx.sigma],
                                              temperatures |-> kloc.temperatures,
                                              mesh |-> Get(br).mesh,
                                              kappa |-> kloc.kappa,
                                              sigma |-> args.sigmas[kidx.sigma]])]
  /\ kidx' = [kidx EXCEPT !.sigma = @ + 1]
  /\ kpc' = "sigma"
  /\ UNCHANGED <<args, br, kloc, store>>
  /\ UNCHANGED <<abinitVars, sweepLocals, self>>

\* self._kappa = mode_kappa; self._gamma = gamma
StoreResults ==
  /\ \/ kpc = "store"
     \/ kpc = "sigma" /\ kidx.sigma > Len(args.sigmas)
  /\ self' = [self EXCEPT !.kappa = kloc.mode_kappa, !.gamma = kloc.gamma]
  /\ kpc' = "done"
  /\ UNCHANGED <<args, br, kidx, kloc, store, out>>
  /\ UNCHANGED <<abinitVars, sweepLocals>>

NextKappa ==
  \/ Construct \/ SetGridPoints \/ ReadGamma \/ AppendGammaAtSigma \/ SetGamma
  \/ CalculateKappa \/ GetResults \/ PrintHeader \/ PrintRow \/ WriteKappa
  \/ StoreResults

SpecKappa == InitKappa /\ [][NextKappa]_vars

-----------------------------------------------------------------------------
(* Properties of get_thermal_conductivity *)

IsPrefix(a, b) == Len(a) <= Len(b) /\ SubSeq(b, 1, Len(a)) = a

Calculated == kpc \in {"get", "sigma", "rows", "store", "done"}

\* C3: with read_gamma set, set_gamma and calculate_kappa are reached only with
\* gamma that belongs, for every sigma and grid point, to the mesh of the run
\* and to that grid point, and never with a failed read in the place of one.
C3_ResumptionValidated ==
  (args.read_gamma /\ ~IsNone(br) /\ ~IsNone(Get(br).gamma)) =>
    LET gps == Get(Get(br).grid_points)
        gamma == Get(Get(br).gamma)
    IN /\ Len(gamma) = Len(args.sigmas)
       /\ \A s \in 1..Len(gamma) :
            /\ Len(gamma[s]) = Len(gps)
            /\ \A g \in 1..Len(gps) :
                 /\ gamma[s][g].mesh = Get(br).mesh
                 /\ gamma[s][g].grid_point = gps[g]

\* the reads of a resumed run: sigma by sigma, and for each the grid points
ReadsOf(sigmas, gps) ==
  [n \in 1..(Len(sigmas) * Len(gps)) |->
     CallOf("read_gamma_from_hdf5", Some(sigmas[((n - 1) \div Len(gps)) + 1]),
            Some(gps[((n - 1) % Len(gps)) + 1]))]

CallsOf(sigmas, gps, read_gamma) ==
  <<CallOf("set_grid_points", None, None)>>
    \o (IF read_gamma
        THEN ReadsOf(sigmas, gps) \o <<CallOf("set_gamma", None, None)>>
        ELSE <<>>)
    \o <<CallOf("calculate_kappa", None, None)>>

\* C7: with read_gamma set, after set_grid_points gamma is read once for every
\* pair of a sigma and a grid point, the sigmas in the order given and for each
\* the grid points that set_grid_points made effective, then set_gamma is
\* called once, then calculate_kappa; without read_gamma, calculate_kappa
\* follows set_grid_points with no read and no set_gamma.
C7_ResumptionOrder ==
  (Len(out.calls) > 0) =>
    LET calls == CallsOf(args.sigmas, Get(Get(br).grid_points), args.read_gamma)
    IN /\ IsPrefix(out.calls, calls)
       /\ Calculated => out.calls = calls

\* a resumed run over the grid points of the mesh, two of them, with two
\* sigmas, has ended
C7_Witness ==
  /\ kpc = "done" /\ args.read_gamma /\ IsNone(args.grid_points)
  /\ Len(args.sigmas) = 2 /\ args.sigmas[1] > args.sigmas[2]
  /\ Len(Get(Get(br).grid_points)) = 2
  /\ Len(out.calls) = 7

RECURSIVE Total(_, _)
\* the sum of f over the set S of indices
Total(f, S) ==
  IF S = {} THEN 0 ELSE LET x == CHOOSE x \in S : TRUE IN f[x] + Total(f, S \ {x})

\* the table of sigma number s: the header, a row for every temperature of the
\* range, each with the sums over all grid points and bands, and the blank line
TableOf(s, sigma, temperatures, mode_kappa) ==
  LET x == mode_kappa[s]
      cells == (1..Len(x)) \X (1..Len(x[1][1]))
      row(t) == RowLine(temperatures[t],
                        [c \in 1..NComp |->
                           Total([gb \in cells |-> x[gb[1]][t][gb[2]][c]], cells)])
  IN <<HeaderLine(sigma), ColumnsLine>>
       \o [t \in 1..Len(temperatures) |-> row(t)]
       \o <<BlankLine>>

ConsoleOf(sigmas, temperatures, mode_kappa) ==
  Concat([s \in 1..Len(sigmas) |-> TableOf(s, sigmas[s], temperatures, mode_kappa)])

\* C5: the summary is, for each sigma in the order given, a header and then one
\* row for every temperature of the configured range, in ascending order, each
\* with the temperature and the six components summed over all grid points and
\* all bands of that sigma.
C5_ConsoleSummary ==
  (kpc \in {"sigma", "rows", "done"} /\ IsNone(args.grid_points)) =>
    LET console == ConsoleOf(args.sigmas,
                             RangeTemperatures(args.t_min, args.t_max, args.t_step),
                             Get(kloc.mode_kappa))
    IN /\ IsPrefix(out.console, console)
       /\ kpc = "done" => out.console = console
       /\ \A n \in 1..(Len(out.console) - 1) :
            (out.console[n].kind = "row" /\ out.console[n + 1].kind = "row")
              => out.console[n].t < out.console[n + 1].t

\* the summary of two sigmas over two grid points and two temperatures is out
C5_Witness ==
  /\ kpc = "done" /\ IsNone(args.grid_points)
  /\ Len(args.sigmas) = 2 /\ args.sigmas[1] > args.sigmas[2]
  /\ Len(Get(Get(br).grid_points)) = 2
  /\ Len(kloc.temperatures) = 2
  /\ Len(out.console) = 10

\* the lines of the console that end a table
TablesOut == {n \in 1..Len(out.console) : out.console[n].kind = "blank"}

\* the calls of calculate_kappa so far
KappaCalls == {n \in 1..Len(out.calls) : out.calls[n].m = "calculate_kappa"}

\* C11: without grid_points one write of kappa is issued for every sigma, in
\* the order of the sigmas, each when the table of its sigma is out; with
\* grid_points nothing is printed and nothing is written; in both cases
\* calculate_kappa is called once, and the kappa and gamma the facade keeps
\* are its results.
C11_FinalOutput ==
  (kpc # "idle") =>
    /\ IF IsNone(args.grid_points)
       THEN /\ Len(out.writes) = Cardinality(TablesOut)
            /\ Len(out.writes) <= Len(args.sigmas)
            /\ \A n \in 1..Len(out.writes) :
                 /\ out.writes[n].sigma = args.sigmas[n]
                 /\ out.writes[n].gamma = Get(Get(br).gamma)[n]
                 /\ out.writes[n].kappa =
                      [t \in 1..Len(kloc.temperatures) |->
                         TableOf(n, args.sigmas[n], kloc.temperatures,
                                 Get(kloc.mode_kappa))[2 + t].k]
            /\ kpc = "done" => Len(out.writes) = Len(args.sigmas)
       ELSE out.console = <<>> /\ out.writes = <<>>
    /\ Cardinality(KappaCalls) <= 1
    /\ Len(out.writes) > 0 => Cardinality(KappaCalls) = 1
    /\ IF kpc = "done"
       THEN /\ Cardinality(KappaCalls) = 1
            /\ self.kappa = Get(br).kappa /\ ~IsNone(self.kappa)
            /\ self.gamma = Get(br).gamma /\ ~IsNone(self.gamma)
       ELSE IsNone(self.kappa) /\ IsNone(self.gamma)

\* a run over the grid points of the mesh has ended with the writes of two sigmas
C11_Witness ==
  /\ kpc = "done" /\ IsNone(args.grid_points)
  /\ Len(args.sigmas) = 2 /\ args.sigmas[1] < args.sigmas[2]
  /\ Len(out.writes) = 2 /\ out.writes[1].kappa # out.writes[2].kappa
  /\ ~IsNone(self.kappa)

=============================================================================
